---- MODULE Spec2Model ----
(***************************************************************************)
(* Model of homeassistant/components/tile/__init__.py: the setup / unload  *)
(* lifecycle of the Tile integration and the per-tile update function.     *)
(*                                                                         *)
(* Every await of the source is a suspension point: a handler is split     *)
(* into one action per stretch of code between two awaits, and the value   *)
(* an awaited external call returns (or the error it raises) is an input   *)
(* of the action that resumes the coroutine.                               *)
(***************************************************************************)
EXTENDS Integers, Sequences, FiniteSets, TLC

VARIABLES
    entry_data,              \* entry -> entry.data, the account of the entry
    migration_runs,          \* entry -> runs of the identity migration alone
    ent_reg,                 \* entity registry: entity_id -> registry entry
    hass_data,               \* hass.data, restricted to the key DOMAIN
    platform_loaded,         \* entry -> the device_tracker platform is set up
    pc,                      \* entry -> the await its handler is suspended at
    coordinator_init_tasks,  \* entry -> (uuid -> state of the initial refresh)
    setup_error,             \* entry -> error raised by login / discovery
    setup_result,            \* entry -> outcome of the last async_setup_entry
    unload_result,           \* entry -> outcome of the last async_unload_entry
    timer_refreshes          \* number of refreshes started by coordinator timers

vars == <<entry_data, migration_runs, ent_reg, hass_data, platform_loaded,
          pc, coordinator_init_tasks,
          setup_error, setup_result, unload_result, timer_refreshes>>

(* Bounds *)

\* the account of the first entry owns tiles 1..MaxTiles
MaxTiles == 3
\* the coordinators' timers fire at most MaxTimerRefreshes times in a run
MaxTimerRefreshes == 1
\* the uuid of a tile has at most MaxUuidLen characters
MaxUuidLen == 2
\* the migration of an entry is run at most MaxMigrationRuns times
MaxMigrationRuns == 2

(* Constants of the component *)

\* DOMAIN of .const (a reserved word here); strings that are formatted,
\* split or compared by prefix are sequences of characters
DOMAIN_NAME == <<"t", "i", "l", "e">>
DATA_COORDINATOR == "coordinator"
DATA_TILE == "tile_data"
\* variant: a limit that admits no task
DEFAULT_INIT_TASK_LIMIT_Zero == 2 - 2

\* variant: a limit that is off by one
DEFAULT_INIT_TASK_LIMIT_OffByOne == 2 + 1

DEFAULT_INIT_TASK_LIMIT == 2

Entries == {"entry_a", "entry_b"}

\* entry.data[CONF_USERNAME]
Username(e) == entry_data[e].username

\* the accounts of the two entries
InitialEntryData ==
    [e \in Entries |->
        [username |-> IF e = "entry_a" THEN <<"a", "l">> ELSE <<"b", "o">>]]

\* the tiles the external service may return for the account of an entry;
\* the account of the second entry owns no tile
AccountTiles(e) == IF e = "entry_a" THEN 1..MaxTiles ELSE {}

\* pytile.errors: InvalidAuthError and SessionExpiredError derive from TileError
TileErrors == {"InvalidAuthError", "SessionExpiredError", "TileError"}

\* the errors of tile.async_update() and of client.async_init()
UpdateErrors == {"SessionExpiredError", "TileError"}

InitErrors == {"TileError"}

IsInstance(err, cls) == err = cls \/ (cls = "TileError" /\ err \in TileErrors)

(* dict helpers *)

EmptyDict == [k \in {} |-> 0]

Put(d, k, v) == [x \in (DOMAIN d) \cup {k} |-> IF x = k THEN v ELSE d[x]]

Pop(d, k) == [x \in (DOMAIN d) \ {k} |-> d[x]]

(* str methods *)

\* s.startswith(prefix)
StartsWith(s, prefix) ==
    /\ Len(s) >= Len(prefix)
    /\ SubSeq(s, 1, Len(prefix)) = prefix

\* the positions at which sep occurs in s
Occurrences(s, sep) ==
    {i \in 1..(Len(s) - Len(sep) + 1) : SubSeq(s, i, i + Len(sep) - 1) = sep}

\* s.split(sep): cut at the occurrences of sep, leftmost first
RECURSIVE Split(_, _)
Split(s, sep) ==
    IF Occurrences(s, sep) = {} THEN <<s>>
    ELSE LET i == CHOOSE k \in Occurrences(s, sep) :
                      \A j \in Occurrences(s, sep) : k <= j
         IN  <<SubSeq(s, 1, i - 1)>>
                 \o Split(SubSeq(s, i + Len(sep), Len(s)), sep)

\* glue.join(parts), parts not empty
RECURSIVE Join(_, _)
Join(glue, parts) ==
    IF Len(parts) = 1 THEN parts[1]
    ELSE parts[1] \o glue \o Join(glue, Tail(parts))

(* The entity registry *)

\* variant: every entity of the entry is selected, whatever its prefix
NeedsMigration_NoPrefixCheck(entity, e) ==
    entity.config_entry_id = e

\* the entities the list comprehension of async_setup_entry selects
NeedsMigration(entity, e) ==
    /\ entity.config_entry_id = e
    /\ ~StartsWith(entity.unique_id, Username(e))

\* variant: the new prefix without its separator
NewUniqueId_NoSeparator(unique_id, username) ==
    Join(username, Split(unique_id, DOMAIN_NAME \o <<"_">>))

\* new_unique_id = f"{username}_".join(entity.unique_id.split(f"{DOMAIN}_"))
NewUniqueId(unique_id, username) ==
    Join(username \o <<"_">>, Split(unique_id, DOMAIN_NAME \o <<"_">>))

\* ent_reg.async_update_entity(entity_id, new_unique_id=...) for every
\* selected entity
MigrateEntities(reg, e) ==
    [entity_id \in DOMAIN reg |->
        IF NeedsMigration(reg[entity_id], e)
        THEN [reg[entity_id] EXCEPT
                 !.unique_id = NewUniqueId(@, Username(e))]
        ELSE reg[entity_id]]

\* the registry the host starts with: a legacy entity of each entry and an
\* entity of the second entry that already has the new format
InitialRegistry ==
    [entity_id \in {"device_tracker.tile_1", "device_tracker.tile_2",
                    "device_tracker.bo_1"} |->
        IF entity_id = "device_tracker.tile_1"
        THEN [config_entry_id |-> "entry_a",
              unique_id |-> DOMAIN_NAME \o <<"_", "1">>]
        ELSE IF entity_id = "device_tracker.tile_2"
        THEN [config_entry_id |-> "entry_b",
              unique_id |-> DOMAIN_NAME \o <<"_", "1">>]
        ELSE [config_entry_id |-> "entry_b",
              unique_id |-> InitialEntryData["entry_b"].username \o <<"_", "1">>]]

(* hass.data[DOMAIN][DATA_COORDINATOR] and hass.data[DOMAIN][DATA_TILE] *)

Coordinators == hass_data[DOMAIN_NAME][DATA_COORDINATOR]

Tiles == hass_data[DOMAIN_NAME][DATA_TILE]

HasCoordinator(e, u) ==
    /\ DOMAIN_NAME \in DOMAIN hass_data
    /\ e \in DOMAIN Coordinators
    /\ u \in DOMAIN Coordinators[e]

\* hass.data[DOMAIN][key][e] = v
SetEntryData(data, key, e, v) ==
    [data EXCEPT ![DOMAIN_NAME] = [@ EXCEPT ![key] = Put(@, e, v)]]

\* hass.data[DOMAIN][DATA_COORDINATOR][e][u] = c
SetCoordinator(data, e, u, c) ==
    [data EXCEPT ![DOMAIN_NAME] =
        [@ EXCEPT ![DATA_COORDINATOR] = [@ EXCEPT ![e] = Put(@, u, c)]]]

(* The external service client (pytile) *)

\* a Tile object returned by client.async_get_tiles() of the client of e
Tile(e, u) == [uuid |-> u, client |-> e]

\* the dicts {tile_uuid: Tile} client.async_get_tiles() may return: the
\* first n tiles of the account, in the order of their uuids
TileDicts(e) ==
    {[u \in 1..n |-> Tile(e, u)] : n \in 0..Cardinality(AccountTiles(e))}

(* DataUpdateCoordinator *)

\* DataUpdateCoordinator(hass, LOGGER, name, update_interval, update_method)
\*   tile            the tile bound into update_method by partial()
\*   phase           where the running refresh is suspended, or "idle"
\*   last_exception  error the last finished refresh recorded, or "None"
\*   update_result   what tile.async_update() did in the latest refresh
\*   init_result     what client.async_init() did in the latest refresh
\*   expired_before  an earlier refresh of this coordinator met SessionExpired
DataUpdateCoordinator(tile) ==
    [tile |-> tile, phase |-> "idle", last_exception |-> "None",
     update_result |-> "none", init_result |-> "none",
     expired_before |-> FALSE]

last_update_success(c) == c.last_exception = "None"

\* coordinator.async_refresh() up to the first await of the update method:
\* async_update_tile(tile) calls tile.async_update()
RefreshBegin(c) ==
    [c EXCEPT !.phase = "async_update",
              !.expired_before = @ \/ c.update_result = "SessionExpiredError",
              !.update_result = "none",
              !.init_result = "none"]

\* coordinator.async_refresh() once the update method returned or raised
RefreshEnd(c, raised) == [c EXCEPT !.phase = "idle", !.last_exception = raised]

(* gather_with_concurrency(limit, *tasks) *)

\* the tasks are scheduled in the order of the argument list, which is the
\* order of the dict of tiles, and wait for the semaphore in that order
FirstPending(e, u) ==
    /\ u \in DOMAIN coordinator_init_tasks[e]
    /\ coordinator_init_tasks[e][u] = "pending"
    /\ \A v \in DOMAIN coordinator_init_tasks[e] :
           coordinator_init_tasks[e][v] = "pending" => u <= v

Running(e) == {u \in DOMAIN coordinator_init_tasks[e] :
                   coordinator_init_tasks[e][u] = "running"}

SemaphoreFree(limit, e) == Cardinality(Running(e)) < limit

GatherDone(e) == \A u \in DOMAIN coordinator_init_tasks[e] :
                     coordinator_init_tasks[e][u] = "done"

\* the initial refresh of (e, u), if it is the running refresh, has settled
SettleTask(tasks, e, u) ==
    IF u \in DOMAIN tasks[e] /\ tasks[e][u] = "running"
    THEN [tasks EXCEPT ![e][u] = "done"]
    ELSE tasks

(* The host: hass.config_entries *)

\* the host sets up an entry that is not loaded and did not fail to unload
CanSetup(e) ==
    /\ DOMAIN_NAME \in DOMAIN hass_data
    /\ pc[e] = "idle"
    /\ ~platform_loaded[e]
    /\ unload_result[e] # "False"

\* the host unloads an entry whose setup returned True
CanUnload(e) ==
    /\ pc[e] = "idle"
    /\ setup_result[e] = "True"
    /\ unload_result[e] = "none"

(* async_setup *)

async_setup ==
    /\ DOMAIN_NAME \notin DOMAIN hass_data
    /\ hass_data' = (DOMAIN_NAME :> ((DATA_COORDINATOR :> EmptyDict)
                                @@ (DATA_TILE :> EmptyDict)))
    /\ UNCHANGED <<entry_data, migration_runs,
                   ent_reg, platform_loaded, pc, coordinator_init_tasks,
                   setup_error, setup_result, unload_result, timer_refreshes>>

(* async_setup_entry *)

\* variant: the tiles of the entry are set with setdefault, which keeps a
\* mapping that is already there
SetupEntryBegin_SetDefault(e) ==
    /\ CanSetup(e)
    /\ ent_reg' = MigrateEntities(ent_reg, e)
    /\ hass_data' =
           LET data == SetEntryData(hass_data, DATA_COORDINATOR, e, EmptyDict)
           IN  IF e \in DOMAIN Tiles THEN data
               ELSE SetEntryData(data, DATA_TILE, e, EmptyDict)
    /\ pc' = [pc EXCEPT ![e] = "async_login"]
    /\ coordinator_init_tasks' = [coordinator_init_tasks EXCEPT ![e] = EmptyDict]
    /\ setup_error' = [setup_error EXCEPT ![e] = "None"]
    /\ setup_result' = [setup_result EXCEPT ![e] = "none"]
    /\ unload_result' = [unload_result EXCEPT ![e] = "none"]
    /\ UNCHANGED <<entry_data, migration_runs,
                   platform_loaded, timer_refreshes>>

\* entry to the await of async_login
SetupEntryBegin(e) ==
    /\ CanSetup(e)
    /\ ent_reg' = MigrateEntities(ent_reg, e)
    /\ hass_data' = SetEntryData(SetEntryData(hass_data, DATA_COORDINATOR, e,
                                              EmptyDict),
                                 DATA_TILE, e, EmptyDict)
    /\ pc' = [pc EXCEPT ![e] = "async_login"]
    /\ coordinator_init_tasks' = [coordinator_init_tasks EXCEPT ![e] = EmptyDict]
    /\ setup_error' = [setup_error EXCEPT ![e] = "None"]
    /\ setup_result' = [setup_result EXCEPT ![e] = "none"]
    /\ unload_result' = [unload_result EXCEPT ![e] = "none"]
    /\ UNCHANGED <<entry_data, migration_runs,
                   platform_loaded, timer_refreshes>>

\* variant: the TileError clause comes first and shadows InvalidAuthError
SetupExcept_TileErrorFirst(err) ==
    IF IsInstance(err, "TileError") THEN "ConfigEntryNotReady"
    ELSE IF IsInstance(err, "InvalidAuthError") THEN "False"
    ELSE err

\* variant: every error of login and discovery is a hard failure
SetupExcept_AlwaysFalse(err) ==
    IF IsInstance(err, "TileError") THEN "False" ELSE err

\* the except clauses of the try around login and discovery
SetupExcept(err) ==
    IF IsInstance(err, "InvalidAuthError") THEN "False"
    ELSE IF IsInstance(err, "TileError") THEN "ConfigEntryNotReady"
    ELSE err

SetupRaises(e, err) ==
    /\ setup_error' = [setup_error EXCEPT ![e] = err]
    /\ setup_result' = [setup_result EXCEPT ![e] = SetupExcept(err)]
    /\ pc' = [pc EXCEPT ![e] = "idle"]
    /\ UNCHANGED <<entry_data, migration_runs,
                   ent_reg, hass_data, platform_loaded, coordinator_init_tasks,
                   unload_result, timer_refreshes>>

\* async_login returned a client: call client.async_get_tiles()
LoginReturns(e) ==
    /\ pc[e] = "async_login"
    /\ pc' = [pc EXCEPT ![e] = "async_get_tiles"]
    /\ UNCHANGED <<entry_data, migration_runs,
                   ent_reg, hass_data, platform_loaded, coordinator_init_tasks,
                   setup_error, setup_result, unload_result, timer_refreshes>>

LoginRaises(e, err) ==
    /\ pc[e] = "async_login"
    /\ SetupRaises(e, err)

\* variant: the loop leaves out the last tile
RECURSIVE CreateCoordinators_SkipLast(_, _, _, _)
CreateCoordinators_SkipLast(data, e, tiles, todo) ==
    IF Cardinality(todo) <= 1 THEN data
    ELSE LET tile_uuid == CHOOSE u \in todo : \A v \in todo : u <= v
             coordinator == DataUpdateCoordinator(tiles[tile_uuid])
         IN  CreateCoordinators_SkipLast(
                 SetCoordinator(data, e, tile_uuid, coordinator),
                 e, tiles, todo \ {tile_uuid})

\* variant: the update method reads the loop variable when it runs, so every
\* coordinator refreshes the tile the loop ended on
RECURSIVE CreateCoordinators_LateBinding(_, _, _, _)
CreateCoordinators_LateBinding(data, e, tiles, todo) ==
    IF todo = {} THEN data
    ELSE LET tile_uuid == CHOOSE u \in todo : \A v \in todo : u <= v
             last_uuid == CHOOSE u \in DOMAIN tiles :
                              \A v \in DOMAIN tiles : v <= u
             coordinator == DataUpdateCoordinator(tiles[last_uuid])
         IN  CreateCoordinators_LateBinding(
                 SetCoordinator(data, e, tile_uuid, coordinator),
                 e, tiles, todo \ {tile_uuid})

\* the loop over the discovered tiles: one coordinator per tile, and one
\* coordinator.async_refresh() coroutine per coordinator
RECURSIVE CreateCoordinators(_, _, _, _)
CreateCoordinators(data, e, tiles, todo) ==
    IF todo = {} THEN data
    ELSE LET tile_uuid == CHOOSE u \in todo : \A v \in todo : u <= v
             coordinator == DataUpdateCoordinator(tiles[tile_uuid])
         IN  CreateCoordinators(SetCoordinator(data, e, tile_uuid, coordinator),
                                e, tiles, todo \ {tile_uuid})

\* variant: the refresh of the first tile starts inside the loop, before the
\* coordinators of the other tiles exist
GetTilesReturns_RefreshInLoop(e, tiles) ==
    /\ pc[e] = "async_get_tiles"
    /\ hass_data' =
           IF tiles = EmptyDict
           THEN SetEntryData(hass_data, DATA_TILE, e, tiles)
           ELSE SetCoordinator(SetEntryData(hass_data, DATA_TILE, e, tiles),
                               e, 1,
                               RefreshBegin(DataUpdateCoordinator(tiles[1])))
    /\ coordinator_init_tasks' =
           [coordinator_init_tasks EXCEPT ![e] =
               [u \in DOMAIN hass_data'[DOMAIN_NAME][DATA_COORDINATOR][e] |->
                   "running"]]
    /\ pc' = [pc EXCEPT ![e] = "gather_with_concurrency"]
    /\ UNCHANGED <<entry_data, migration_runs, ent_reg, platform_loaded,
                   setup_error, setup_result, unload_result, timer_refreshes>>

\* client.async_get_tiles() returned: store the tiles, create the
\* coordinators and their refresh coroutines, call gather_with_concurrency
\* (a coroutine runs no code before gather_with_concurrency schedules it)
GetTilesReturns(e, tiles) ==
    /\ pc[e] = "async_get_tiles"
    /\ hass_data' = CreateCoordinators(
                        SetEntryData(hass_data, DATA_TILE, e, tiles),
                        e, tiles, DOMAIN tiles)
    /\ coordinator_init_tasks' =
           [coordinator_init_tasks EXCEPT ![e] =
               [u \in DOMAIN hass_data'[DOMAIN_NAME][DATA_COORDINATOR][e] |->
                   "pending"]]
    /\ pc' = [pc EXCEPT ![e] = "gather_with_concurrency"]
    /\ UNCHANGED <<entry_data, migration_runs,
                   ent_reg, platform_loaded, setup_error, setup_result,
                   unload_result, timer_refreshes>>

GetTilesRaises(e, err) ==
    /\ pc[e] = "async_get_tiles"
    /\ SetupRaises(e, err)

\* a queued initial refresh gets a slot of the semaphore and starts
InitTaskStart(e, u) ==
    /\ pc[e] = "gather_with_concurrency"
    /\ FirstPending(e, u)
    /\ SemaphoreFree(DEFAULT_INIT_TASK_LIMIT, e)
    /\ coordinator_init_tasks' = [coordinator_init_tasks EXCEPT ![e][u] = "running"]
    /\ hass_data' = SetCoordinator(hass_data, e, u, RefreshBegin(Coordinators[e][u]))
    /\ UNCHANGED <<entry_data, migration_runs,
                   ent_reg, platform_loaded, pc, setup_error, setup_result,
                   unload_result, timer_refreshes>>

\* variant: the platform handoff does not wait for gather_with_concurrency
SetupEntryFinish_NoAwait(e) ==
    /\ pc[e] = "gather_with_concurrency"
    /\ platform_loaded' = [platform_loaded EXCEPT ![e] = TRUE]
    /\ setup_result' = [setup_result EXCEPT ![e] = "True"]
    /\ pc' = [pc EXCEPT ![e] = "idle"]
    /\ UNCHANGED <<entry_data, migration_runs,
                   ent_reg, hass_data, coordinator_init_tasks, setup_error,
                   unload_result, timer_refreshes>>

\* variant: setup is not ready unless every initial refresh succeeded
SetupEntryFinish_RequireSuccess(e) ==
    /\ pc[e] = "gather_with_concurrency"
    /\ GatherDone(e)
    /\ IF \A u \in DOMAIN Coordinators[e] :
              last_update_success(Coordinators[e][u])
       THEN /\ platform_loaded' = [platform_loaded EXCEPT ![e] = TRUE]
            /\ setup_result' = [setup_result EXCEPT ![e] = "True"]
       ELSE /\ setup_result' = [setup_result EXCEPT ![e] = "ConfigEntryNotReady"]
            /\ UNCHANGED platform_loaded
    /\ pc' = [pc EXCEPT ![e] = "idle"]
    /\ UNCHANGED <<entry_data, migration_runs,
                   ent_reg, hass_data, coordinator_init_tasks, setup_error,
                   unload_result, timer_refreshes>>

\* gather_with_concurrency returned: platform handoff, return True
SetupEntryFinish(e) ==
    /\ pc[e] = "gather_with_concurrency"
    /\ GatherDone(e)
    /\ platform_loaded' = [platform_loaded EXCEPT ![e] = TRUE]
    /\ setup_result' = [setup_result EXCEPT ![e] = "True"]
    /\ pc' = [pc EXCEPT ![e] = "idle"]
    /\ UNCHANGED <<entry_data, migration_runs,
                   ent_reg, hass_data, coordinator_init_tasks, setup_error,
                   unload_result, timer_refreshes>>

(* async_update_tile *)

\* variant: the first clause catches every TileError
UpdateExcept_ReinitOnAny(err) ==
    IF IsInstance(err, "TileError") THEN "async_init" ELSE err

\* the except clauses of async_update_tile, for an error of tile.async_update()
UpdateExcept(err) ==
    IF IsInstance(err, "SessionExpiredError") THEN "async_init"
    ELSE IF IsInstance(err, "TileError") THEN "UpdateFailed"
    ELSE err

\* the coordinator's timer fires while the platform listens to it
PeriodicRefresh(e, u) ==
    /\ HasCoordinator(e, u)
    /\ platform_loaded[e]
    /\ Coordinators[e][u].phase = "idle"
    /\ timer_refreshes < MaxTimerRefreshes
    /\ timer_refreshes' = timer_refreshes + 1
    /\ hass_data' = SetCoordinator(hass_data, e, u, RefreshBegin(Coordinators[e][u]))
    /\ UNCHANGED <<entry_data, migration_runs,
                   ent_reg, platform_loaded, pc, coordinator_init_tasks,
                   setup_error, setup_result, unload_result>>

\* tile.async_update() returned: async_update_tile returns its value
TileUpdateReturns(e, u) ==
    /\ HasCoordinator(e, u)
    /\ Coordinators[e][u].phase = "async_update"
    /\ hass_data' = SetCoordinator(hass_data, e, u,
           RefreshEnd([Coordinators[e][u] EXCEPT !.update_result = "ok"], "None"))
    /\ coordinator_init_tasks' = SettleTask(coordinator_init_tasks, e, u)
    /\ UNCHANGED <<entry_data, migration_runs,
                   ent_reg, platform_loaded, pc, setup_error, setup_result,
                   unload_result, timer_refreshes>>

\* tile.async_update() raised err
TileUpdateRaises(e, u, err) ==
    /\ HasCoordinator(e, u)
    /\ Coordinators[e][u].phase = "async_update"
    /\ LET c == [Coordinators[e][u] EXCEPT !.update_result = err]
           handler == UpdateExcept(err)
       IN  IF handler = "async_init"
           THEN /\ hass_data' = SetCoordinator(hass_data, e, u,
                      [c EXCEPT !.phase = "async_init", !.init_result = "pending"])
                /\ UNCHANGED coordinator_init_tasks
           ELSE /\ hass_data' = SetCoordinator(hass_data, e, u, RefreshEnd(c, handler))
                /\ coordinator_init_tasks' = SettleTask(coordinator_init_tasks, e, u)
    /\ UNCHANGED <<entry_data, migration_runs,
                   ent_reg, platform_loaded, pc, setup_error, setup_result,
                   unload_result, timer_refreshes>>

\* client.async_init() returned: async_update_tile returns None
ClientInitReturns(e, u) ==
    /\ HasCoordinator(e, u)
    /\ Coordinators[e][u].phase = "async_init"
    /\ hass_data' = SetCoordinator(hass_data, e, u,
           RefreshEnd([Coordinators[e][u] EXCEPT !.init_result = "ok"], "None"))
    /\ coordinator_init_tasks' = SettleTask(coordinator_init_tasks, e, u)
    /\ UNCHANGED <<entry_data, migration_runs,
                   ent_reg, platform_loaded, pc, setup_error, setup_result,
                   unload_result, timer_refreshes>>

\* client.async_init() raised err inside the SessionExpiredError handler:
\* no clause of the same try catches it, it leaves async_update_tile
ClientInitRaises(e, u, err) ==
    /\ HasCoordinator(e, u)
    /\ Coordinators[e][u].phase = "async_init"
    /\ hass_data' = SetCoordinator(hass_data, e, u,
           RefreshEnd([Coordinators[e][u] EXCEPT !.init_result = err], err))
    /\ coordinator_init_tasks' = SettleTask(coordinator_init_tasks, e, u)
    /\ UNCHANGED <<entry_data, migration_runs,
                   ent_reg, platform_loaded, pc, setup_error, setup_result,
                   unload_result, timer_refreshes>>

(* async_unload_entry *)

\* entry to the await of async_unload_platforms
UnloadEntryBegin(e) ==
    /\ CanUnload(e)
    /\ pc' = [pc EXCEPT ![e] = "async_unload_platforms"]
    /\ UNCHANGED <<entry_data, migration_runs,
                   ent_reg, hass_data, platform_loaded, coordinator_init_tasks,
                   setup_error, setup_result, unload_result, timer_refreshes>>

\* variant: the coordinators are popped whatever async_unload_platforms says
UnloadPlatformsReturns_AlwaysPop(e, unload_ok) ==
    /\ pc[e] = "async_unload_platforms"
    /\ hass_data' = [hass_data EXCEPT ![DOMAIN_NAME] =
            [@ EXCEPT ![DATA_COORDINATOR] = Pop(@, e)]]
    /\ platform_loaded' = [platform_loaded EXCEPT ![e] = ~unload_ok]
    /\ unload_result' = [unload_result EXCEPT ![e] =
                            IF unload_ok THEN "True" ELSE "False"]
    /\ pc' = [pc EXCEPT ![e] = "idle"]
    /\ UNCHANGED <<entry_data, migration_runs,
                   ent_reg, coordinator_init_tasks, setup_error, setup_result,
                   timer_refreshes>>

\* variant: a successful unload pops the tiles of the entry as well
UnloadPlatformsReturns_PopBoth(e, unload_ok) ==
    /\ pc[e] = "async_unload_platforms"
    /\ IF unload_ok
       THEN /\ hass_data' = [hass_data EXCEPT ![DOMAIN_NAME] =
                    [@ EXCEPT ![DATA_COORDINATOR] = Pop(@, e),
                              ![DATA_TILE] = Pop(@, e)]]
            /\ platform_loaded' = [platform_loaded EXCEPT ![e] = FALSE]
       ELSE UNCHANGED <<hass_data, platform_loaded>>
    /\ unload_result' = [unload_result EXCEPT ![e] =
                            IF unload_ok THEN "True" ELSE "False"]
    /\ pc' = [pc EXCEPT ![e] = "idle"]
    /\ UNCHANGED <<entry_data, migration_runs,
                   ent_reg, coordinator_init_tasks, setup_error, setup_result,
                   timer_refreshes>>

\* variant: a successful unload pops the tiles of the entry and keeps its
\* coordinators
UnloadPlatformsReturns_PopTiles(e, unload_ok) ==
    /\ pc[e] = "async_unload_platforms"
    /\ IF unload_ok
       THEN /\ hass_data' = [hass_data EXCEPT ![DOMAIN_NAME] =
                    [@ EXCEPT ![DATA_TILE] = Pop(@, e)]]
            /\ platform_loaded' = [platform_loaded EXCEPT ![e] = FALSE]
       ELSE UNCHANGED <<hass_data, platform_loaded>>
    /\ unload_result' = [unload_result EXCEPT ![e] =
                            IF unload_ok THEN "True" ELSE "False"]
    /\ pc' = [pc EXCEPT ![e] = "idle"]
    /\ UNCHANGED <<entry_data, migration_runs,
                   ent_reg, coordinator_init_tasks, setup_error, setup_result,
                   timer_refreshes>>

\* async_unload_platforms returned unload_ok
UnloadPlatformsReturns(e, unload_ok) ==
    /\ pc[e] = "async_unload_platforms"
    /\ IF unload_ok
       THEN /\ hass_data' = [hass_data EXCEPT ![DOMAIN_NAME] =
                    [@ EXCEPT ![DATA_COORDINATOR] = Pop(@, e)]]
            /\ platform_loaded' = [platform_loaded EXCEPT ![e] = FALSE]
       ELSE UNCHANGED <<hass_data, platform_loaded>>
    /\ unload_result' = [unload_result EXCEPT ![e] =
                            IF unload_ok THEN "True" ELSE "False"]
    /\ pc' = [pc EXCEPT ![e] = "idle"]
    /\ UNCHANGED <<entry_data, migration_runs,
                   ent_reg, coordinator_init_tasks, setup_error, setup_result,
                   timer_refreshes>>

(* Specification *)

Init ==
    /\ entry_data = InitialEntryData
    /\ migration_runs = [e \in Entries |-> 0]
    /\ ent_reg = InitialRegistry
    /\ hass_data = EmptyDict
    /\ platform_loaded = [e \in Entries |-> FALSE]
    /\ pc = [e \in Entries |-> "idle"]
    /\ coordinator_init_tasks = [e \in Entries |-> EmptyDict]
    /\ setup_error = [e \in Entries |-> "None"]
    /\ setup_result = [e \in Entries |-> "none"]
    /\ unload_result = [e \in Entries |-> "none"]
    /\ timer_refreshes = 0

Next ==
    \/ async_setup
    \/ \E e \in Entries : SetupEntryBegin(e)
    \/ \E e \in Entries : LoginReturns(e)
    \/ \E e \in Entries, err \in TileErrors : LoginRaises(e, err)
    \/ \E e \in Entries : \E tiles \in TileDicts(e) : GetTilesReturns(e, tiles)
    \/ \E e \in Entries, err \in TileErrors : GetTilesRaises(e, err)
    \/ \E e \in Entries : \E u \in AccountTiles(e) : InitTaskStart(e, u)
    \/ \E e \in Entries : SetupEntryFinish(e)
    \/ \E e \in Entries : \E u \in AccountTiles(e) : PeriodicRefresh(e, u)
    \/ \E e \in Entries : \E u \in AccountTiles(e) : TileUpdateReturns(e, u)
    \/ \E e \in Entries : \E u \in AccountTiles(e), err \in UpdateErrors :
           TileUpdateRaises(e, u, err)
    \/ \E e \in Entries : \E u \in AccountTiles(e) : ClientInitReturns(e, u)
    \/ \E e \in Entries : \E u \in AccountTiles(e), err \in InitErrors :
           ClientInitRaises(e, u, err)
    \/ \E e \in Entries : UnloadEntryBegin(e)
    \/ \E e \in Entries, unload_ok \in BOOLEAN : UnloadPlatformsReturns(e, unload_ok)

Spec == Init /\ [][Next]_vars

(* The identity migration on its own: stored identifiers and usernames are
   drawn from the two formats, and the migration of an entry is run again
   and again *)

\* the characters of a tile uuid (hexadecimal digits)
UuidChars == {"1", "e"}

Uuids == UNION {[1..n -> UuidChars] : n \in 1..MaxUuidLen}

\* account names: one that is a prefix of the domain, one that ends with it
Usernames == {<<"a", "l">>, <<"t">>, <<"x">> \o DOMAIN_NAME}

\* Old: tile_{uuid}
OldUniqueId(uuid) == DOMAIN_NAME \o <<"_">> \o uuid

\* New: {username}_{uuid}
NewFormatUniqueId(username, uuid) == username \o <<"_">> \o uuid

\* the identifiers an entity of an account may be stored under
StoredUniqueIds(username) ==
    {OldUniqueId(uuid) : uuid \in Uuids}
        \cup {NewFormatUniqueId(username, uuid) : uuid \in Uuids}

\* a registry with one entity per entry; the entity id records the entry and
\* the identifier the entity was first stored under
RegistryOf(stored) ==
    [entity_id \in {<<e, stored[e]>> : e \in Entries} |->
        [config_entry_id |-> entity_id[1], unique_id |-> entity_id[2]]]

\* the migration loop of async_setup_entry, run for entry e
MigrationRun(e) ==
    /\ migration_runs[e] < MaxMigrationRuns
    /\ ent_reg' = MigrateEntities(ent_reg, e)
    /\ migration_runs' = [migration_runs EXCEPT ![e] = @ + 1]
    /\ UNCHANGED <<entry_data, hass_data, platform_loaded, pc,
                   coordinator_init_tasks, setup_error, setup_result,
                   unload_result, timer_refreshes>>

InitMigrate ==
    /\ entry_data \in [Entries -> [username : Usernames]]
    /\ \E stored \in [Entries -> UNION {StoredUniqueIds(n) : n \in Usernames}] :
           /\ \A e \in Entries : stored[e] \in StoredUniqueIds(Username(e))
           /\ ent_reg = RegistryOf(stored)
    /\ migration_runs = [e \in Entries |-> 0]
    /\ hass_data = EmptyDict
    /\ platform_loaded = [e \in Entries |-> FALSE]
    /\ pc = [e \in Entries |-> "idle"]
    /\ coordinator_init_tasks = [e \in Entries |-> EmptyDict]
    /\ setup_error = [e \in Entries |-> "None"]
    /\ setup_result = [e \in Entries |-> "none"]
    /\ unload_result = [e \in Entries |-> "none"]
    /\ timer_refreshes = 0

NextMigrate == \E e \in Entries : MigrationRun(e)

SpecMigrate == InitMigrate /\ [][NextMigrate]_vars

(* The same program when every awaited call comes back and the event loop
   runs every coroutine that is ready *)

\* every external call eventually returns or raises
ExternalCallsReturn ==
    /\ \A e \in Entries :
           /\ WF_vars(LoginReturns(e)
                         \/ \E err \in TileErrors : LoginRaises(e, err))
           /\ WF_vars((\E tiles \in TileDicts(e) : GetTilesReturns(e, tiles))
                         \/ \E err \in TileErrors : GetTilesRaises(e, err))
    /\ \A e \in Entries : \A u \in AccountTiles(e) :
           /\ WF_vars(TileUpdateReturns(e, u)
                         \/ \E err \in UpdateErrors : TileUpdateRaises(e, u, err))
           /\ WF_vars(ClientInitReturns(e, u)
                         \/ \E err \in InitErrors : ClientInitRaises(e, u, err))

\* the event loop resumes a task that holds a free slot of the semaphore and
\* the coroutine whose gather_with_concurrency is complete
EventLoopRuns ==
    /\ \A e \in Entries : \A u \in AccountTiles(e) : WF_vars(InitTaskStart(e, u))
    /\ \A e \in Entries : WF_vars(SetupEntryFinish(e))

\* the steps of async_setup_entry, of the refreshes it starts and of the
\* async_setup before it
NextSetup ==
    \/ async_setup
    \/ \E e \in Entries : SetupEntryBegin(e)
    \/ \E e \in Entries : LoginReturns(e)
    \/ \E e \in Entries, err \in TileErrors : LoginRaises(e, err)
    \/ \E e \in Entries : \E tiles \in TileDicts(e) : GetTilesReturns(e, tiles)
    \/ \E e \in Entries, err \in TileErrors : GetTilesRaises(e, err)
    \/ \E e \in Entries : \E u \in AccountTiles(e) : InitTaskStart(e, u)
    \/ \E e \in Entries : SetupEntryFinish(e)
    \/ \E e \in Entries : \E u \in AccountTiles(e) : TileUpdateReturns(e, u)
    \/ \E e \in Entries : \E u \in AccountTiles(e), err \in UpdateErrors :
           TileUpdateRaises(e, u, err)
    \/ \E e \in Entries : \E u \in AccountTiles(e) : ClientInitReturns(e, u)
    \/ \E e \in Entries : \E u \in AccountTiles(e), err \in InitErrors :
           ClientInitRaises(e, u, err)

LiveSpec ==
    Init /\ [][NextSetup]_vars /\ ExternalCallsReturn /\ EventLoopRuns

(* Properties *)

\* the refreshes of the coordinators of e that have started and not settled
InFlight(e) ==
    IF DOMAIN_NAME \in DOMAIN hass_data /\ e \in DOMAIN Coordinators
    THEN {u \in DOMAIN Coordinators[e] : Coordinators[e][u].phase # "idle"}
    ELSE {}

\* C1: while async_setup_entry awaits the initial refresh batch, at most 2
\* refreshes of the entry's coordinators have started and not yet settled.
C1_AtMostTwoInFlight ==
    \A e \in Entries :
        pc[e] = "gather_with_concurrency" => Cardinality(InFlight(e)) <= 2

\* two refreshes in flight, a third one queued behind the limit
C1_Witness ==
    \E e \in Entries :
        /\ pc[e] = "gather_with_concurrency"
        /\ Cardinality(DOMAIN coordinator_init_tasks[e]) > 2
        /\ Cardinality(InFlight(e)) = 2
        /\ \E u \in DOMAIN coordinator_init_tasks[e] :
               coordinator_init_tasks[e][u] = "pending"

\* C2: whenever the platform of an entry is loaded, every coordinator of the
\* entry has an initial refresh task and every such task has settled.
C2_HandoffAfterBatch ==
    \A e \in Entries :
        platform_loaded[e] =>
            /\ e \in DOMAIN Coordinators =>
                   DOMAIN Coordinators[e] \subseteq DOMAIN coordinator_init_tasks[e]
            /\ \A u \in DOMAIN coordinator_init_tasks[e] :
                   coordinator_init_tasks[e][u] = "done"

\* the platform is loaded after a batch of more tasks than the limit
C2_Witness ==
    \E e \in Entries :
        /\ platform_loaded[e]
        /\ setup_result[e] = "True"
        /\ Cardinality(DOMAIN coordinator_init_tasks[e]) > 2

\* C3: after login or discovery failed with invalid credentials, setup has
\* returned False, the entry has an empty coordinator mapping, no initial
\* refresh task exists and the platform is not loaded.
C3_InvalidAuthFails ==
    \A e \in Entries :
        IsInstance(setup_error[e], "InvalidAuthError") =>
            /\ setup_result[e] = "False"
            /\ e \in DOMAIN Coordinators
            /\ Coordinators[e] = EmptyDict
            /\ coordinator_init_tasks[e] = EmptyDict
            /\ InFlight(e) = {}
            /\ ~platform_loaded[e]

\* an attempt ended with invalid credentials
C3_Witness ==
    \E e \in Entries :
        /\ setup_error[e] = "InvalidAuthError"
        /\ pc[e] = "idle"
        /\ setup_result[e] = "False"

\* C4: after login or discovery failed with a service error other than
\* invalid credentials, setup has raised ConfigEntryNotReady (not the hard
\* failure False), the entry has no coordinator and the platform is not
\* loaded.
C4_OtherErrorNotReady ==
    \A e \in Entries :
        (setup_error[e] \in TileErrors \ {"InvalidAuthError"}) =>
            /\ setup_result[e] = "ConfigEntryNotReady"
            /\ setup_result[e] # "False"
            /\ e \in DOMAIN Coordinators
            /\ Coordinators[e] = EmptyDict
            /\ ~platform_loaded[e]

\* one attempt ended not ready, another with the hard failure
C4_Witness ==
    \E e, f \in Entries :
        /\ setup_error[e] = "TileError"
        /\ setup_result[e] = "ConfigEntryNotReady"
        /\ setup_error[f] = "InvalidAuthError"
        /\ setup_result[f] = "False"

\* C5: from a successful setup until a successful unload, the coordinator
\* mapping of the entry has the same keys as its resource mapping.
C5_OneCoordinatorPerTile ==
    \A e \in Entries :
        (setup_result[e] = "True" /\ unload_result[e] # "True") =>
            /\ e \in DOMAIN Coordinators
            /\ e \in DOMAIN Tiles
            /\ DOMAIN Coordinators[e] = DOMAIN Tiles[e]

\* a successful setup that discovered more than two tiles
C5_Witness ==
    \E e \in Entries :
        /\ setup_result[e] = "True"
        /\ unload_result[e] # "True"
        /\ Cardinality(DOMAIN Tiles[e]) > 2

\* the coordinators that finished a refresh
Settled ==
    {eu \in Entries \X (1..MaxTiles) :
        /\ HasCoordinator(eu[1], eu[2])
        /\ Coordinators[eu[1]][eu[2]].phase = "idle"
        /\ Coordinators[eu[1]][eu[2]].update_result # "none"}

Coordinator(eu) == Coordinators[eu[1]][eu[2]]

\* C6: a refresh in which tile.async_update() failed with session-expired
\* has called client.async_init() and has recorded no failure, whatever
\* client.async_init() did.
C6_ExpiryNeverSurfaces ==
    \A eu \in Settled :
        Coordinator(eu).update_result = "SessionExpiredError" =>
            /\ Coordinator(eu).init_result # "none"
            /\ last_update_success(Coordinator(eu))

\* C7: a refresh in which tile.async_update() failed with an error other
\* than session-expired has recorded UpdateFailed and has not called
\* client.async_init(), also when an earlier refresh of the coordinator met
\* session-expired.
C7_OtherErrorSurfaces ==
    \A eu \in Settled :
        (Coordinator(eu).update_result \in TileErrors \ {"SessionExpiredError"}) =>
            /\ Coordinator(eu).last_exception = "UpdateFailed"
            /\ Coordinator(eu).init_result = "none"

\* a non-expiry failure in a refresh that follows a session-expired refresh
C7_Witness ==
    \E eu \in Settled :
        /\ Coordinator(eu).expired_before
        /\ Coordinator(eu).update_result = "TileError"
        /\ Coordinator(eu).last_exception = "UpdateFailed"

\* the refresh of the coordinator went wrong: tile.async_update() failed
\* with a non-expiry error, or client.async_init() failed
OwnFailure(c) ==
    \/ c.update_result \in TileErrors \ {"SessionExpiredError"}
    \/ c.init_result \in TileErrors

\* C8: once login and discovery succeeded, a finished setup has returned
\* True with the platform loaded and the initial refresh of every tile
\* settled, whatever the refreshes did; a coordinator records a failure only for its own
\* refresh.
C8_RefreshErrorsIsolated ==
    /\ \A e \in Entries :
           (pc[e] = "idle" /\ setup_result[e] # "none" /\ setup_error[e] = "None") =>
               /\ setup_result[e] = "True"
               /\ unload_result[e] = "none" => platform_loaded[e]
               /\ \A u \in DOMAIN Tiles[e] :
                      /\ u \in DOMAIN coordinator_init_tasks[e]
                      /\ coordinator_init_tasks[e][u] = "done"
    /\ \A eu \in Settled :
           ~last_update_success(Coordinator(eu)) <=> OwnFailure(Coordinator(eu))

\* setup returned True with one refresh succeeded, one failed after a
\* session expiry and one failed with another error
C8_Witness ==
    \E e \in Entries :
        /\ setup_result[e] = "True"
        /\ unload_result[e] = "none"
        /\ timer_refreshes = 0
        /\ \E u, v, w \in DOMAIN Coordinators[e] :
               /\ Coordinators[e][u].update_result = "ok"
               /\ Coordinators[e][u].last_exception = "None"
               /\ Coordinators[e][v].update_result = "TileError"
               /\ Coordinators[e][v].last_exception = "UpdateFailed"
               /\ Coordinators[e][w].update_result = "SessionExpiredError"
               /\ Coordinators[e][w].phase = "idle"

\* C9: when async_unload_platforms returns, async_unload_entry returns its
\* result; on success the entry is popped from the coordinator namespace, on
\* failure the coordinator namespace is unchanged.
C9_UnloadPopsIffOk ==
    [][\A e \in Entries :
          (pc[e] = "async_unload_platforms" /\ pc'[e] = "idle") =>
              \/ /\ ~platform_loaded'[e]
                 /\ unload_result'[e] = "True"
                 /\ e \notin DOMAIN hass_data'[DOMAIN_NAME][DATA_COORDINATOR]
              \/ /\ platform_loaded'[e]
                 /\ unload_result'[e] = "False"
                 /\ hass_data'[DOMAIN_NAME][DATA_COORDINATOR] = Coordinators]_vars

\* one entry failed to unload and kept its coordinators, another unloaded
C9_Witness ==
    \E e, f \in Entries :
        /\ unload_result[e] = "False"
        /\ e \in DOMAIN Coordinators
        /\ Coordinators[e] # EmptyDict
        /\ unload_result[f] = "True"
        /\ f \notin DOMAIN Coordinators

\* C10: after a successful unload neither the coordinators nor the tracked
\* resources of the entry remain: no tile is stored without its coordinator.
C10_UnloadRemovesBoth ==
    \A e \in Entries :
        unload_result[e] = "True" =>
            /\ e \notin DOMAIN Coordinators
            /\ \/ e \notin DOMAIN Tiles
               \/ \A u \in DOMAIN Tiles[e] : HasCoordinator(e, u)

\* a step of async_unload_entry of e: its entry, or its return
UnloadStep(e) ==
    \/ pc[e] = "idle" /\ pc'[e] = "async_unload_platforms"
    \/ pc[e] = "async_unload_platforms" /\ pc'[e] = "idle"

\* C11: no step of async_unload_entry changes the resource namespace (the
\* resource mapping of the entry stays, whatever async_unload_platforms
\* returns, and so do those of the other entries) nor the coordinator mapping
\* of another entry.
C11_UnloadKeepsTiles ==
    [][\A e \in Entries :
          UnloadStep(e) =>
              /\ hass_data'[DOMAIN_NAME][DATA_TILE] = Tiles
              /\ \A f \in Entries \ {e} :
                     /\ f \in DOMAIN hass_data'[DOMAIN_NAME][DATA_COORDINATOR]
                            <=> f \in DOMAIN Coordinators
                     /\ f \in DOMAIN Coordinators =>
                            hass_data'[DOMAIN_NAME][DATA_COORDINATOR][f]
                                = Coordinators[f]]_vars

\* an entry with tiles was unloaded while another entry has a coordinator
\* mapping: the tiles are still stored
C11_Witness ==
    \E e \in Entries :
        /\ unload_result[e] = "True"
        /\ e \in DOMAIN Tiles
        /\ Tiles[e] # EmptyDict
        /\ \E f \in Entries \ {e} : f \in DOMAIN Coordinators

\* s.endswith(suffix)
EndsWith(s, suffix) ==
    /\ Len(s) >= Len(suffix)
    /\ SubSeq(s, Len(s) - Len(suffix) + 1, Len(s)) = suffix

\* the uuid of a stored identifier: what follows its last "_"
UuidOf(unique_id) ==
    LET last == CHOOSE i \in 1..Len(unique_id) :
                    /\ unique_id[i] = "_"
                    /\ \A j \in (i + 1)..Len(unique_id) : unique_id[j] # "_"
    IN  SubSeq(unique_id, last + 1, Len(unique_id))

\* C12: once the migration of an entry has run, every entity of the entry
\* that was stored under an identifier not starting with the entry's username
\* has an identifier that starts with "<username>_" and ends with the uuid
\* it was stored with; as long as only the migrations of other entries have
\* run, an entity keeps the identifier it was stored under.
C12_MigratedToUsernamePrefix ==
    \A entity_id \in DOMAIN ent_reg :
        LET e == entity_id[1]
            stored == entity_id[2]
            unique_id == ent_reg[entity_id].unique_id
        IN  /\ (migration_runs[e] > 0 /\ ~StartsWith(stored, Username(e))) =>
                   /\ StartsWith(unique_id, Username(e) \o <<"_">>)
                   /\ EndsWith(unique_id, <<"_">> \o UuidOf(stored))
                   /\ UuidOf(unique_id) = UuidOf(stored)
            /\ migration_runs[e] = 0 => unique_id = stored

C12_Witness ==
    \E entity_id \in DOMAIN ent_reg, other_id \in DOMAIN ent_reg :
        /\ migration_runs[entity_id[1]] > 0
        /\ ~StartsWith(entity_id[2], Username(entity_id[1]))
        /\ ent_reg[entity_id].unique_id # entity_id[2]
        /\ other_id[1] # entity_id[1]
        /\ migration_runs[other_id[1]] = 0
        /\ ~StartsWith(other_id[2], Username(other_id[1]))

\* C13: a second or later run of the migration of an entry changes no
\* identifier of the registry, and no step rewrites an entity whose
\* identifier starts with the username of its entry.
C13_MigrationIdempotent ==
    [][\A e \in Entries :
          migration_runs'[e] = migration_runs[e] + 1 =>
              /\ migration_runs[e] > 0 => ent_reg' = ent_reg
              /\ MigrateEntities(ent_reg', e) = ent_reg'
              /\ \A entity_id \in DOMAIN ent_reg :
                     StartsWith(ent_reg[entity_id].unique_id,
                                Username(ent_reg[entity_id].config_entry_id))
                         => ent_reg'[entity_id] = ent_reg[entity_id]]_vars

C13_Witness ==
    \E entity_id \in DOMAIN ent_reg :
        /\ migration_runs[entity_id[1]] >= 2
        /\ ent_reg[entity_id].unique_id # entity_id[2]
        /\ StartsWith(ent_reg[entity_id].unique_id, Username(entity_id[1]))

\* the refresh of a coordinator has started at least once
RefreshStarted(c) == c # DataUpdateCoordinator(c.tile)

\* C14: the phases of async_setup_entry are ordered: while login or discovery
\* is awaited and afterwards no entity of the entry is left to migrate; while
\* login is awaited nothing has been discovered; while login or discovery is
\* awaited no coordinator and no refresh task exists; and once a refresh of
\* a coordinator of the entry has started, every discovered tile has its
\* coordinator.
C14_PhasesOrdered ==
    \A e \in Entries :
        /\ pc[e] \in {"async_login", "async_get_tiles", "gather_with_concurrency"}
               => \A entity_id \in DOMAIN ent_reg :
                      ~NeedsMigration(ent_reg[entity_id], e)
        /\ pc[e] \in {"async_login", "async_get_tiles"}
               => /\ Tiles[e] = EmptyDict
                  /\ Coordinators[e] = EmptyDict
                  /\ coordinator_init_tasks[e] = EmptyDict
        /\ pc[e] = "gather_with_concurrency"
               => \A u \in DOMAIN Coordinators[e] :
                      (RefreshStarted(Coordinators[e][u])
                           \/ coordinator_init_tasks[e][u] # "pending")
                          => DOMAIN Coordinators[e] = DOMAIN Tiles[e]

C14_Witness ==
    \E e \in Entries :
        /\ pc[e] = "gather_with_concurrency"
        /\ Cardinality(DOMAIN Tiles[e]) = MaxTiles
        /\ \E u \in DOMAIN Coordinators[e] :
               Coordinators[e][u].phase = "async_update"
        /\ \E u \in DOMAIN Coordinators[e] :
               coordinator_init_tasks[e][u] = "pending"
        /\ ent_reg # InitialRegistry

\* C15: the update method of the coordinator stored under uuid u of an entry
\* is bound to the tile stored under u for that entry, so each of its
\* refreshes calls async_update() of that tile and of no other.
C15_BoundToOwnTile ==
    \A e \in Entries : \A u \in AccountTiles(e) :
        HasCoordinator(e, u) =>
            /\ e \in DOMAIN Tiles
            /\ u \in DOMAIN Tiles[e]
            /\ Coordinators[e][u].tile = Tiles[e][u]
            /\ Coordinators[e][u].tile.uuid = u
            /\ \A v \in DOMAIN Tiles[e] \ {u} :
                   Coordinators[e][u].tile # Tiles[e][v]

C15_Witness ==
    \E e \in Entries : \E u \in AccountTiles(e), v \in AccountTiles(e) :
        /\ u < v
        /\ HasCoordinator(e, u)
        /\ HasCoordinator(e, v)
        /\ Coordinators[e][u].phase = "async_update"
        /\ Coordinators[e][v].phase = "idle"
        /\ Coordinators[e][v].update_result # "none"
        /\ timer_refreshes > 0

\* C17: for every entry present in hass.data[DOMAIN][DATA_COORDINATOR], the
\* entry is present in hass.data[DOMAIN][DATA_TILE] and every uuid that has a
\* coordinator has a stored tile.
C17_CoordinatorKeysAreTileKeys ==
    DOMAIN_NAME \in DOMAIN hass_data =>
        \A e \in DOMAIN Coordinators :
            /\ e \in DOMAIN Tiles
            /\ DOMAIN Coordinators[e] \subseteq DOMAIN Tiles[e]

C17_Witness ==
    /\ DOMAIN_NAME \in DOMAIN hass_data
    /\ \E e \in DOMAIN Tiles :
           /\ e \notin DOMAIN Coordinators
           /\ Tiles[e] # EmptyDict
           /\ unload_result[e] = "True"
    /\ \E f \in DOMAIN Coordinators :
           /\ setup_result[f] \in {"False", "ConfigEntryNotReady"}
           /\ Coordinators[f] = EmptyDict

\* C18: an attempt of async_setup_entry starts from two empty mappings of
\* the entry: they are empty while login or discovery is awaited and after
\* an attempt that failed or was not ready; once discovery returned, the
\* mappings hold the uuids of that discovery only, and a coordinator whose
\* initial refresh has not started carries nothing of an earlier setup.
C18_SetupStartsFromEmpty ==
    \A e \in Entries :
        /\ (\/ pc[e] \in {"async_login", "async_get_tiles"}
            \/ setup_result[e] \in {"False", "ConfigEntryNotReady"}) =>
               /\ e \in DOMAIN Tiles /\ Tiles[e] = EmptyDict
               /\ e \in DOMAIN Coordinators /\ Coordinators[e] = EmptyDict
        /\ (pc[e] = "gather_with_concurrency" \/ setup_result[e] = "True") =>
               /\ DOMAIN Tiles[e] = DOMAIN coordinator_init_tasks[e]
               /\ e \in DOMAIN Coordinators =>
                      DOMAIN Coordinators[e] = DOMAIN coordinator_init_tasks[e]
        /\ pc[e] = "gather_with_concurrency" =>
               \A u \in DOMAIN coordinator_init_tasks[e] :
                   coordinator_init_tasks[e][u] = "pending" =>
                       Coordinators[e][u] = DataUpdateCoordinator(Tiles[e][u])

C18_Witness ==
    \E e \in Entries :
        /\ timer_refreshes > 0
        /\ setup_result[e] \in {"False", "ConfigEntryNotReady"}
        /\ AccountTiles(e) # {}
        /\ Tiles[e] = EmptyDict
        /\ Coordinators[e] = EmptyDict

\* async_setup_entry of e is between its first await and its return
InSetup(e) ==
    pc[e] \in {"async_login", "async_get_tiles", "gather_with_concurrency"}

\* async_setup_entry of e has ended, in exactly one of its three ways
SetupEnded(e) ==
    /\ pc[e] = "idle"
    /\ setup_result[e] \in {"True", "False", "ConfigEntryNotReady"}
    /\ setup_result[e] = "True" <=> platform_loaded[e]

\* C16: when every external call returns or raises, every initial refresh
\* that waits for the semaphore is eventually done, and every started
\* async_setup_entry eventually ends with the platforms loaded and True,
\* with False, or with ConfigEntryNotReady.
C16_SetupTerminates ==
    /\ \A e \in Entries : InSetup(e) ~> SetupEnded(e)
    /\ \A e \in Entries : \A u \in AccountTiles(e) :
           (/\ pc[e] = "gather_with_concurrency"
            /\ u \in DOMAIN coordinator_init_tasks[e]
            /\ coordinator_init_tasks[e][u] = "pending")
               ~> (/\ u \in DOMAIN coordinator_init_tasks[e]
                   /\ coordinator_init_tasks[e][u] = "done")

C16_Witness ==
    \E e \in Entries :
        /\ SetupEnded(e)
        /\ setup_result[e] = "True"
        /\ Cardinality(DOMAIN coordinator_init_tasks[e]) > DEFAULT_INIT_TASK_LIMIT
        /\ GatherDone(e)
        /\ \E u \in DOMAIN Coordinators[e] :
               Coordinators[e][u].init_result = "TileError"
        /\ timer_refreshes = 0

====
